---- MODULE Spec2Model ----
(***************************************************************************)
(* Oaths & Ashes: one GameSession (src/bot.py) as a state machine.         *)
(*                                                                         *)
(* The driver task (GameSession._loop) and the update handlers run on one  *)
(* asyncio event loop: code between two awaits is atomic.  `pc` is the     *)
(* await at which the driver task is suspended; the pair loop of           *)
(* _resolve_mechanics contains no await and is modelled pair by pair with  *)
(* the handlers disabled (pc = "res_pairs").  A handler mutates the        *)
(* session before its first await, except cmd_flee in Lobby, which may     *)
(* suspend on the session lock between its phase test and the removal.     *)
(*                                                                         *)
(* Spec follows a session from cmd_start; SpecPayoff one turn of the pair  *)
(* loop over all roles; SpecCurse a full room over two rounds; SpecRoom a  *)
(* room with restarts and driver faults; SpecCancel a duel whose driver    *)
(* task may be cancelled; SpecWhisper a duel with whisper deliveries.      *)
(***************************************************************************)
EXTENDS Integers, Sequences, FiniteSets, TLC

\* ------------------------------------------------------------ bounds
MaxUsers == 3          \* user ids 1..MaxUsers send updates
MaxRound == 4          \* the round loop is followed up to this round ...
DuelUsers == 2         \* ... in sessions of at most DuelUsers players,
WideRounds == 1        \* and up to this round in larger sessions
MaxCurses == 1         \* curses_received is followed up to this length
MaxRoleIdx == 3        \* the shuffle pops roles among the first MaxRoleIdx of RoleType
PayoffCurses == 2      \* curse list lengths tried on a single pair
CurseRounds == 2       \* rounds followed when a full room starts at round 1
MaxOrphans == 1        \* replaced sessions whose driver is still followed
RoomRounds == 1        \* rounds followed in a room that may be restarted
WhisperRounds == 2     \* rounds followed while whisper deliveries are in flight

\* ------------------------------------------------------------ program constants
MIN_PLAYERS == 2
STARTING_STANDING == 50
AFK_PENALTY == 5
DUMMY_ID == 0

Users == 1..MaxUsers

RoleType ==
    << "CINDER_ORACLE", "BLACK_BANNER", "GRAVEWARDEN", "VEIL_SCRIBE",
       "IRON_VANGUARD", "CRIMSON_DUELIST", "PALE_JESTER", "HOLLOW_KING",
       "VERDANT_HEALER", "SILENT_SHADOW" >>

Roles == {RoleType[i] : i \in 1..Len(RoleType)}

Min2(a, b) == IF a <= b THEN a ELSE b

\* roles the bounded shuffle may hand out
DrawnRoles == {RoleType[i] : i \in 1..Min2(MaxRoleIdx, Len(RoleType))}

Phase == {"LOBBY", "DISCUSSION", "DECISION", "RESOLUTION", "ENDED"}

\* None is written "NONE"; Action.SLEEP is only ever set by the resolution default
Action == {"TRUST", "BETRAY", "SLEEP"}

NoUser == 0

Player(uid) ==
    [ standing |-> STARTING_STANDING,
      role |-> "NONE",
      is_alive |-> TRUE,
      current_action |-> "NONE",
      curses_received |-> << >> ]

VARIABLES
    players,        \* GameSession.players: user id -> Player
    phase,          \* GameSession.phase
    round_num,      \* GameSession.round_num
    lock,           \* GameSession.lock: "free" or held by the "driver"
    pc,             \* the await at which the driver task is suspended
    pairs,          \* _resolve_mechanics: the round's pair list
    pair_i,         \* index of the next pair of the `for p1, p2 in pairs` loop
    dummy_action,   \* current_action of the placeholder Player(0, "The Void")
    winner,         \* argument of _end_game: a user id, NoUser for None, -1 before
    flee_waiting,   \* user whose cmd_flee is suspended in remove_player on the lock
    death_checks,   \* history: runs of the death loop (lines 471-475) in this round
    death_log,      \* _resolve_mechanics: ids whose fall the death loop logged
    orphan_loops,   \* driver tasks still running on sessions that cmd_start
                    \* has replaced in `games`
    cast_round,     \* history: user id -> round_num at the latest append to
                    \* its curses_received in the session in `games` (0: none)
    whisper_tasks,  \* _resolve_mechanics: length of the local list whisper_tasks
    whispers_flying \* rounds whose whispers asyncio.gather has scheduled and
                    \* whose deliveries have not all completed or failed

vars == << players, phase, round_num, lock, pc, pairs, pair_i, dummy_action,
           winner, flee_waiting, death_checks, death_log, orphan_loops,
           cast_round, whisper_tasks, whispers_flying >>

Roster == DOMAIN players

AliveIds(ps) == {u \in DOMAIN ps : ps[u].is_alive}

\* the last round followed in a session of n players
RoundCap(n) == IF n <= DuelUsers THEN MaxRound ELSE WideRounds

\* the driver is suspended at an await (or has returned): handlers may run
AtAwait == pc # "res_pairs"

\* ------------------------------------------------------------ payoff pipeline
\* BasePayoff with the AFK branches paying the waking side whatever it chose
BasePayoffAfkBonus(a1, a2, r1, r2) ==
    IF a1 = "SLEEP"
    THEN << -AFK_PENALTY, 10 >>
    ELSE IF a2 = "SLEEP"
    THEN << 10, -AFK_PENALTY >>
    ELSE IF a1 = "TRUST" /\ a2 = "TRUST"
    THEN << IF r1 = "CINDER_ORACLE" THEN 10 * 2 ELSE 10,
            IF r2 = "CINDER_ORACLE" THEN 10 * 2 ELSE 10 >>
    ELSE IF a1 = "TRUST" /\ a2 = "BETRAY"
    THEN << -15, IF r2 = "CRIMSON_DUELIST" THEN 15 + 5 ELSE 15 >>
    ELSE IF a1 = "BETRAY" /\ a2 = "TRUST"
    THEN << IF r1 = "CRIMSON_DUELIST" THEN 15 + 5 ELSE 15, -15 >>
    ELSE IF a1 = "BETRAY" /\ a2 = "BETRAY"
    THEN << IF r1 = "IRON_VANGUARD" THEN -10 + 5 ELSE -10,
            IF r2 = "IRON_VANGUARD" THEN -10 + 5 ELSE -10 >>
    ELSE << 0, 0 >>

\* lines 380-404: gain_p1, gain_p2 from the two actions, with the role
\* adjustments the code makes inside the combat branches
BasePayoff(a1, a2, r1, r2) ==
    IF a1 = "SLEEP"
    THEN << -AFK_PENALTY, IF a2 = "BETRAY" THEN 10 ELSE 0 >>
    ELSE IF a2 = "SLEEP"
    THEN << IF a1 = "BETRAY" THEN 10 ELSE 0, -AFK_PENALTY >>
    ELSE IF a1 = "TRUST" /\ a2 = "TRUST"
    THEN << IF r1 = "CINDER_ORACLE" THEN 10 * 2 ELSE 10,
            IF r2 = "CINDER_ORACLE" THEN 10 * 2 ELSE 10 >>
    ELSE IF a1 = "TRUST" /\ a2 = "BETRAY"
    THEN << -15, IF r2 = "CRIMSON_DUELIST" THEN 15 + 5 ELSE 15 >>
    ELSE IF a1 = "BETRAY" /\ a2 = "TRUST"
    THEN << IF r1 = "CRIMSON_DUELIST" THEN 15 + 5 ELSE 15, -15 >>
    ELSE IF a1 = "BETRAY" /\ a2 = "BETRAY"
    THEN << IF r1 = "IRON_VANGUARD" THEN -10 + 5 ELSE -10,
            IF r2 = "IRON_VANGUARD" THEN -10 + 5 ELSE -10 >>
    ELSE << 0, 0 >>

\* BlackBannerSteal that tests the thief's own gain instead of the victim's
BlackBannerStealOwnGain(g, a1, a2, r1, r2) ==
    LET s1 == IF r1 = "BLACK_BANNER" /\ a1 = "BETRAY" /\ g[1] > 0
              THEN << g[1] + 5, g[2] - 5 >> ELSE g
    IN  IF r2 = "BLACK_BANNER" /\ a2 = "BETRAY" /\ s1[2] > 0
        THEN << s1[1] - 5, s1[2] + 5 >> ELSE s1

\* lines 406-414: Black Banner steal, p1's test first, p2's on the result
BlackBannerSteal(g, a1, a2, r1, r2) ==
    LET s1 == IF r1 = "BLACK_BANNER" /\ a1 = "BETRAY" /\ g[2] > 0
              THEN << g[1] + 5, g[2] - 5 >> ELSE g
    IN  IF r2 = "BLACK_BANNER" /\ a2 = "BETRAY" /\ s1[1] > 0
        THEN << s1[1] - 5, s1[2] + 5 >> ELSE s1

\* int(gain * CURSE_MULTIPLIER) with CURSE_MULTIPLIER = 0.5: int() truncates toward zero
IntHalf(x) == IF x >= 0 THEN x \div 2 ELSE -((-x) \div 2)

\* CurseGain without the `gain > 0` test
CurseGainAnySign(gain, curses) ==
    IF Len(curses) > 0 THEN IntHalf(gain) ELSE gain

\* lines 417-418, one side: a non-empty curses_received list is truthy
CurseGain(gain, curses) ==
    IF gain > 0 /\ Len(curses) > 0 THEN IntHalf(gain) ELSE gain

\* lines 421-422, one side
GravewardenGain(gain, role) ==
    IF role = "GRAVEWARDEN" /\ gain < 0 THEN gain + 5 ELSE gain

\* lines 380-422: the deltas added to p1.standing and p2.standing
Gains(a1, a2, r1, r2, c1, c2) ==
    LET base == BasePayoff(a1, a2, r1, r2)
        stolen == BlackBannerSteal(base, a1, a2, r1, r2)
        cursed == << CurseGain(stolen[1], c1), CurseGain(stolen[2], c2) >>
    IN  << GravewardenGain(cursed[1], r1), GravewardenGain(cursed[2], r2) >>

\* lines 376-377: a missing commitment becomes Action.SLEEP
DefaultAction(a) == IF a = "NONE" THEN "SLEEP" ELSE a

\* ------------------------------------------------------------ pairing
\* random.shuffle(alive): every order of the living participants
Shuffles(S) ==
    {q \in [1..Cardinality(S) -> S] : \A i, j \in 1..Cardinality(S) : i # j => q[i] # q[j]}

\* MakePairs without lines 368-371: the odd one out is left unpaired
RECURSIVE MakePairsNoDummy(_)
MakePairsNoDummy(alive) ==
    IF Len(alive) >= 2
    THEN << << alive[Len(alive)], alive[Len(alive) - 1] >> >>
            \o MakePairsNoDummy(SubSeq(alive, 1, Len(alive) - 2))
    ELSE << >>

\* lines 364-371: pop two from the end while two remain; a last one meets the dummy
RECURSIVE MakePairs(_)
MakePairs(alive) ==
    IF Len(alive) >= 2
    THEN << << alive[Len(alive)], alive[Len(alive) - 1] >> >>
            \o MakePairs(SubSeq(alive, 1, Len(alive) - 2))
    ELSE IF Len(alive) = 1
    THEN << << alive[1], DUMMY_ID >> >>
    ELSE << >>

\* lines 432-443: the coroutines one turn of the pair loop appends to
\* whisper_tasks: a whisper for each real side, and the intel for a Veil
\* Scribe whose opponent is real
WhispersQueued(ps, pair) ==
    LET p1 == pair[1]
        p2 == pair[2]
        r2 == IF p2 = DUMMY_ID THEN "HOLLOW_KING" ELSE ps[p2].role
    IN    (IF p1 # DUMMY_ID THEN 1 ELSE 0)
        + (IF p2 # DUMMY_ID THEN 1 ELSE 0)
        + (IF ps[p1].role = "VEIL_SCRIBE" /\ p2 # DUMMY_ID THEN 1 ELSE 0)
        + (IF r2 = "VEIL_SCRIBE" /\ p1 # DUMMY_ID THEN 1 ELSE 0)

\* lines 374-426 for one pair: defaults, gains, standing += gain.  The dummy is a
\* local Player (role HOLLOW_KING, no curses) whose standing is thrown away.
ResolveOnePair(ps, pair, dact) ==
    LET p1 == pair[1]
        p2 == pair[2]
        a1 == DefaultAction(ps[p1].current_action)
        a2 == IF p2 = DUMMY_ID THEN DefaultAction(dact)
              ELSE DefaultAction(ps[p2].current_action)
        r2 == IF p2 = DUMMY_ID THEN "HOLLOW_KING" ELSE ps[p2].role
        c2 == IF p2 = DUMMY_ID THEN << >> ELSE ps[p2].curses_received
        g  == Gains(a1, a2, ps[p1].role, r2, ps[p1].curses_received, c2)
    IN  [u \in DOMAIN ps |->
            IF u = p1
            THEN [ps[u] EXCEPT !.current_action = a1, !.standing = @ + g[1]]
            ELSE IF u = p2
            THEN [ps[u] EXCEPT !.current_action = a2, !.standing = @ + g[2]]
            ELSE ps[u]]

\* DeathLoop without the clamp of line 474
DeathLoopNoClamp(ps) ==
    [u \in DOMAIN ps |->
        IF ps[u].is_alive /\ ps[u].standing <= 0
        THEN [ps[u] EXCEPT !.is_alive = FALSE]
        ELSE ps[u]]

\* lines 471-475: the death loop over all players
DeathLoop(ps) ==
    [u \in DOMAIN ps |->
        IF ps[u].is_alive /\ ps[u].standing <= 0
        THEN [ps[u] EXCEPT !.is_alive = FALSE, !.standing = 0]
        ELSE ps[u]]

\* lines 470-475: death_log, the players the death loop marks
Fallen(ps) == {u \in DOMAIN ps : ps[u].is_alive /\ ps[u].standing <= 0}

\* GameOver with the comparison off by one
GameOverStrict(n) == n < 1

\* line 297: the win condition on the number of living players
GameOver(n) == n <= 1

\* line 298: alive[0] if alive else None
WinnerOf(alive) == IF alive = {} THEN NoUser ELSE CHOOSE u \in alive : TRUE

\* list(RoleType), as far as the bounded pool goes
DrawnSeq == SubSeq(RoleType, 1, Min2(MaxRoleIdx, Len(RoleType)))

\* lines 265-266: while the pool is shorter than the roster, append list(RoleType)
RECURSIVE ExtendPool(_, _)
ExtendPool(pool, n) ==
    IF Len(pool) < n THEN ExtendPool(pool \o DrawnSeq, n) ELSE pool

\* the place of u in the iteration over self.players.values(), from 0
RankIn(ids, u) == Cardinality({v \in ids : v < u})

\* AssignRoles that reads the end of the pool without popping it
AssignRolesPeek(ids, pool) ==
    LET full == ExtendPool(pool, Cardinality(ids))
    IN  [u \in ids |-> full[Len(full)]]

\* lines 267-268: each player in turn pops the last role of the pool
AssignRoles(ids, pool) ==
    LET full == ExtendPool(pool, Cardinality(ids))
    IN  [u \in ids |-> full[Len(full) - RankIn(ids, u)]]

\* lines 262-268: every shuffle of the pool (line 264), then the pops
RoleAssignments(ids) == {AssignRoles(ids, pool) : pool \in Shuffles(DrawnRoles)}

\* ------------------------------------------------------------ construction
\* cmd_start (lines 510-514) runs to its end without suspending: a fresh
\* GameSession (lines 227-234) holding the starter, its driver task created
Init ==
    /\ \E u \in Users : players = (u :> Player(u))
    /\ phase = "LOBBY"
    /\ round_num = 0
    /\ lock = "free"
    /\ pc = "lobby"
    /\ pairs = << >>
    /\ pair_i = 0
    /\ dummy_action = "NONE"
    /\ winner = -1
    /\ flee_waiting = NoUser
    /\ death_checks = 0
    /\ death_log = {}
    /\ orphan_loops = 0
    /\ whisper_tasks = 0
    /\ whispers_flying = {}
    /\ cast_round = [u \in Users |-> 0]

\* updates are processed one at a time: no handler starts while one is suspended
HandlerMayRun == AtAwait /\ flee_waiting = NoUser

\* ------------------------------------------------------------ handlers
\* cmd_join -> add_player (lines 247-253, 516-520).  With the lock held by the
\* driver the call suspends and resumes in phase ENDED, where it returns False.
CmdJoin(u) ==
    /\ HandlerMayRun
    /\ IF lock = "free" /\ phase = "LOBBY" /\ u \notin Roster
       THEN players' = (u :> Player(u)) @@ players
       ELSE players' = players
    /\ UNCHANGED << phase, round_num, lock, pc, pairs, pair_i, dummy_action,
                    winner, flee_waiting, death_checks, death_log >>
    /\ UNCHANGED << orphan_loops, cast_round, whisper_tasks, whispers_flying >>

\* remove_player (lines 255-260), run with the lock held
RemovePlayer(ps, u) == [v \in (DOMAIN ps) \ {u} |-> ps[v]]

\* CmdFlee without the phase test of line 525: every flee is a removal
CmdFleeAlwaysRemoves(u) ==
    /\ HandlerMayRun
    /\ IF lock = "free"
       THEN /\ players' = RemovePlayer(players, u)
            /\ flee_waiting' = flee_waiting
       ELSE /\ flee_waiting' = u
            /\ players' = players
    /\ UNCHANGED << phase, round_num, lock, pc, pairs, pair_i, dummy_action,
                    winner, death_checks, death_log >>
    /\ UNCHANGED << orphan_loops, cast_round, whisper_tasks, whispers_flying >>

\* cmd_flee (lines 522-533): in Lobby remove_player, which suspends when the
\* lock is taken; otherwise the roster member dies on the spot
CmdFlee(u) ==
    /\ HandlerMayRun
    /\ IF phase = "LOBBY"
       THEN IF lock = "free"
            THEN /\ players' = RemovePlayer(players, u)
                 /\ flee_waiting' = flee_waiting
            ELSE /\ flee_waiting' = u
                 /\ players' = players
       ELSE /\ flee_waiting' = flee_waiting
            /\ IF u \in Roster
               THEN players' = [players EXCEPT ![u].standing = 0, ![u].is_alive = FALSE]
               ELSE players' = players
    /\ UNCHANGED << phase, round_num, lock, pc, pairs, pair_i, dummy_action,
                    winner, death_checks, death_log >>
    /\ UNCHANGED << orphan_loops, cast_round, whisper_tasks, whispers_flying >>

\* the suspended remove_player of cmd_flee gets the lock (lines 256-260)
FleeResume ==
    /\ AtAwait
    /\ flee_waiting # NoUser
    /\ lock = "free"
    /\ players' = RemovePlayer(players, flee_waiting)
    /\ flee_waiting' = NoUser
    /\ UNCHANGED << phase, round_num, lock, pc, pairs, pair_i, dummy_action,
                    winner, death_checks, death_log >>
    /\ UNCHANGED << orphan_loops, cast_round, whisper_tasks, whispers_flying >>

\* Vote without the phase test of line 567
VoteAnyPhase(u, a) ==
    /\ HandlerMayRun
    /\ IF u \in Roster /\ players[u].is_alive
       THEN players' = [players EXCEPT ![u].current_action = a]
       ELSE players' = players
    /\ UNCHANGED << phase, round_num, lock, pc, pairs, pair_i, dummy_action,
                    winner, flee_waiting, death_checks, death_log >>
    /\ UNCHANGED << orphan_loops, cast_round, whisper_tasks, whispers_flying >>

\* handle_interaction with data "vote_trust" / "vote_betray" (lines 558-583)
Vote(u, a) ==
    /\ HandlerMayRun
    /\ IF u \in Roster /\ phase = "DECISION" /\ players[u].is_alive
       THEN players' = [players EXCEPT ![u].current_action = a]
       ELSE players' = players
    /\ UNCHANGED << phase, round_num, lock, pc, pairs, pair_i, dummy_action,
                    winner, flee_waiting, death_checks, death_log >>
    /\ UNCHANGED << orphan_loops, cast_round, whisper_tasks, whispers_flying >>

\* handle_interaction with data "curse_<t>" (lines 558-574, 584-590)
Curse(u, t) ==
    /\ HandlerMayRun
    /\ IF /\ u \in Roster
          /\ phase = "DECISION"
          /\ ~players[u].is_alive
          /\ t \in Roster
       THEN /\ Len(players[t].curses_received) < MaxCurses
            /\ players' = [players EXCEPT ![t].curses_received = Append(@, u)]
            /\ cast_round' = [cast_round EXCEPT ![t] = round_num]
       ELSE /\ players' = players
            /\ cast_round' = cast_round
    /\ UNCHANGED << phase, round_num, lock, pc, pairs, pair_i, dummy_action,
                    winner, flee_waiting, death_checks, death_log, orphan_loops,
                    whisper_tasks, whispers_flying >>

\* ------------------------------------------------------------ driver: _loop
\* lines 280-288: the Lobby sleep is over; under the lock, abort or assign roles.
\* Falling out of the lock, the first loop turn runs up to _run_round's first
\* await (lines 291-293, 309-310).
LobbyExpire ==
    /\ pc = "lobby"
    /\ lock = "free"
    /\ IF Cardinality(Roster) < MIN_PLAYERS
       THEN /\ lock' = "driver"
            /\ pc' = "abort_bcast"
            /\ UNCHANGED << players, phase, round_num >>
       ELSE /\ \E f \in RoleAssignments(Roster) :
                    players' = [u \in Roster |-> [players[u] EXCEPT !.role = f[u]]]
            /\ phase' = "DISCUSSION"
            /\ round_num' = round_num + 1
            /\ pc' = "discussion"
            /\ lock' = lock
    /\ UNCHANGED << pairs, pair_i, dummy_action, winner, flee_waiting,
                    death_checks, death_log >>
    /\ UNCHANGED << orphan_loops, cast_round, whisper_tasks, whispers_flying >>

\* AbortEnd without the return of line 286: the driver falls through to
\* assign_roles and the round loop
AbortEndNoReturn ==
    /\ pc = "abort_bcast"
    /\ \E f \in RoleAssignments(Roster) :
            players' = [u \in Roster |-> [players[u] EXCEPT !.role = f[u]]]
    /\ phase' = "DISCUSSION"
    /\ round_num' = round_num + 1
    /\ lock' = "free"
    /\ pc' = "discussion"
    /\ UNCHANGED << pairs, pair_i, dummy_action, winner, flee_waiting,
                    death_checks, death_log >>
    /\ UNCHANGED << orphan_loops, cast_round, whisper_tasks, whispers_flying >>

\* lines 284-286: the abort broadcast returns; phase ENDED, return releases the lock
AbortEnd ==
    /\ pc = "abort_bcast"
    /\ phase' = "ENDED"
    /\ lock' = "free"
    /\ pc' = "done"
    /\ UNCHANGED << players, round_num, pairs, pair_i, dummy_action, winner,
                    flee_waiting, death_checks, death_log >>
    /\ UNCHANGED << orphan_loops, cast_round, whisper_tasks, whispers_flying >>

\* DiscussionExpire without line 323: the curse lists are kept
DiscussionExpireKeepsCurses ==
    /\ pc = "discussion"
    /\ phase' = "DECISION"
    /\ players' = [u \in Roster |-> [players[u] EXCEPT !.current_action = "NONE"]]
    /\ pc' = "decision"
    /\ UNCHANGED << round_num, lock, pairs, pair_i, dummy_action, winner,
                    flee_waiting, death_checks, death_log >>
    /\ UNCHANGED << orphan_loops, cast_round, whisper_tasks, whispers_flying >>

\* lines 315-323: the Discussion sleep is over; Decision opens with every
\* player's action and curses cleared
DiscussionExpire ==
    /\ pc = "discussion"
    /\ phase' = "DECISION"
    /\ players' = [u \in Roster |->
                     [players[u] EXCEPT !.current_action = "NONE",
                                        !.curses_received = << >>]]
    /\ pc' = "decision"
    /\ UNCHANGED << round_num, lock, pairs, pair_i, dummy_action, winner,
                    flee_waiting, death_checks, death_log >>
    /\ UNCHANGED << orphan_loops, cast_round, whisper_tasks, whispers_flying >>

\* DecisionExpire without the is_alive filter of line 362: everybody is paired
DecisionExpirePairsAll ==
    /\ pc = "decision"
    /\ phase' = "RESOLUTION"
    /\ \E q \in Shuffles(Roster) :
       \E d \in (IF Len(q) % 2 = 1 THEN {"TRUST", "BETRAY"} ELSE {"NONE"}) :
            /\ pairs' = MakePairs(q)
            /\ dummy_action' = d
            /\ pair_i' = 1
            /\ pc' = IF Len(q) = 0 THEN "res_chronicle" ELSE "res_pairs"
    /\ whisper_tasks' = 0
    /\ UNCHANGED << players, round_num, lock, winner, flee_waiting,
                    death_checks, death_log >>
    /\ UNCHANGED << orphan_loops, cast_round, whispers_flying >>

\* lines 325-329, 358-371: the Decision sleep is over; Resolution pairs the living
DecisionExpire ==
    /\ pc = "decision"
    /\ phase' = "RESOLUTION"
    /\ \E q \in Shuffles(AliveIds(players)) :
       \E d \in (IF Len(q) % 2 = 1 THEN {"TRUST", "BETRAY"} ELSE {"NONE"}) :
            /\ pairs' = MakePairs(q)
            /\ dummy_action' = d
            /\ pair_i' = 1
            /\ pc' = IF Len(q) = 0 THEN "res_chronicle" ELSE "res_pairs"
    /\ whisper_tasks' = 0
    /\ UNCHANGED << players, round_num, lock, winner, flee_waiting,
                    death_checks, death_log >>
    /\ UNCHANGED << orphan_loops, cast_round, whispers_flying >>

\* lines 374-447: one turn of `for p1, p2 in pairs`; after the last pair the
\* locals of the loop are dead and the chronicle broadcast is awaited
ResolvePair ==
    /\ pc = "res_pairs"
    /\ players' = ResolveOnePair(players, pairs[pair_i], dummy_action)
    /\ IF pair_i < Len(pairs)
       THEN /\ pair_i' = pair_i + 1
            /\ UNCHANGED << pairs, dummy_action, pc >>
       ELSE /\ pair_i' = 0
            /\ pairs' = << >>
            /\ dummy_action' = "NONE"
            /\ pc' = "res_chronicle"
    /\ whisper_tasks' = whisper_tasks + WhispersQueued(players', pairs[pair_i])
    /\ UNCHANGED << phase, round_num, lock, winner, flee_waiting,
                    death_checks, death_log >>
    /\ UNCHANGED << orphan_loops, cast_round, whispers_flying >>

\* lines 454-461: the chronicle broadcast returns; the whispers are handed to
\* gather() and the tension hold is awaited
ChronicleSent ==
    /\ pc = "res_chronicle"
    /\ pc' = "res_hold"
    /\ whispers_flying' = IF whisper_tasks > 0
                          THEN whispers_flying \cup {round_num}
                          ELSE whispers_flying
    /\ whisper_tasks' = 0
    /\ UNCHANGED << players, phase, round_num, lock, pairs, pair_i, dummy_action,
                    winner, flee_waiting, death_checks, death_log >>
    /\ UNCHANGED << orphan_loops, cast_round >>

\* HoldExpire that awaits the gathered whispers with the hold
HoldExpireAwaitsWhispers ==
    /\ pc = "res_hold"
    /\ round_num \notin whispers_flying
    /\ pc' = "res_anchor"
    /\ UNCHANGED << players, phase, round_num, lock, pairs, pair_i, dummy_action,
                    winner, flee_waiting, death_checks, death_log >>
    /\ UNCHANGED << orphan_loops, cast_round, whisper_tasks, whispers_flying >>

\* lines 461-465: the hold is over; the anchor broadcast and its sleep are awaited
HoldExpire ==
    /\ pc = "res_hold"
    /\ pc' = "res_anchor"
    /\ UNCHANGED << players, phase, round_num, lock, pairs, pair_i, dummy_action,
                    winner, flee_waiting, death_checks, death_log >>
    /\ UNCHANGED << orphan_loops, cast_round, whisper_tasks, whispers_flying >>

\* lines 470-489: the death loop, then the standing broadcast is awaited
DeathCheck ==
    /\ pc = "res_anchor"
    /\ players' = DeathLoop(players)
    /\ death_log' = Fallen(players)
    /\ death_checks' = death_checks + 1
    /\ pc' = "res_status"
    /\ UNCHANGED << phase, round_num, lock, pairs, pair_i, dummy_action, winner,
                    flee_waiting >>
    /\ UNCHANGED << orphan_loops, cast_round, whisper_tasks, whispers_flying >>

\* RoundEnd without line 309: the next round starts with the phase left as it is
RoundEndNoDiscussion ==
    /\ pc = "res_status"
    /\ death_log' = {}
    /\ LET alive == AliveIds(players) IN
       IF GameOver(Cardinality(alive))
       THEN /\ winner' = WinnerOf(alive)
            /\ pc' = "end_game"
            /\ UNCHANGED << phase, round_num, death_checks >>
       ELSE /\ round_num' = round_num + 1
            /\ phase' = phase
            /\ death_checks' = 0
            /\ pc' = "discussion"
            /\ winner' = winner
    /\ UNCHANGED << players, lock, pairs, pair_i, dummy_action, flee_waiting >>
    /\ UNCHANGED << orphan_loops, cast_round, whisper_tasks, whispers_flying >>

\* lines 291-299, 309-310, 492-496: _resolve_mechanics returns; the win check,
\* then either _end_game up to its broadcast or the next loop turn
RoundEnd ==
    /\ pc = "res_status"
    /\ death_log' = {}
    /\ LET alive == AliveIds(players) IN
       IF GameOver(Cardinality(alive))
       THEN /\ winner' = WinnerOf(alive)
            /\ pc' = "end_game"
            /\ UNCHANGED << phase, round_num, death_checks >>
       ELSE /\ round_num' = round_num + 1
            /\ phase' = "DISCUSSION"
            /\ death_checks' = 0
            /\ pc' = "discussion"
            /\ winner' = winner
    /\ UNCHANGED << players, lock, pairs, pair_i, dummy_action, flee_waiting >>
    /\ UNCHANGED << orphan_loops, cast_round, whisper_tasks, whispers_flying >>

\* line 497: the end broadcast returns
EndGame ==
    /\ pc = "end_game"
    /\ phase' = "ENDED"
    /\ pc' = "done"
    /\ UNCHANGED << players, round_num, lock, pairs, pair_i, dummy_action, winner,
                    flee_waiting, death_checks, death_log >>
    /\ UNCHANGED << orphan_loops, cast_round, whisper_tasks, whispers_flying >>

\* the driver task has returned
Stopped == pc \in {"done", "cancelled"}

\* Fault without line 305: the exception is logged and the phase left alone
FaultLogged ==
    /\ ~Stopped
    /\ phase' = phase
    /\ pc' = "done"
    /\ lock' = "free"
    /\ pairs' = << >>
    /\ pair_i' = 0
    /\ dummy_action' = "NONE"
    /\ death_log' = {}
    /\ whisper_tasks' = 0
    /\ UNCHANGED << players, round_num, winner, flee_waiting, death_checks,
                    orphan_loops, cast_round, whispers_flying >>

\* lines 303-305: an exception raised anywhere in _loop is caught, the phase
\* set to ENDED and the task returns; leaving `async with` releases the lock
Fault ==
    /\ ~Stopped
    /\ phase' = "ENDED"
    /\ pc' = "done"
    /\ lock' = "free"
    /\ pairs' = << >>
    /\ pair_i' = 0
    /\ dummy_action' = "NONE"
    /\ death_log' = {}
    /\ whisper_tasks' = 0
    /\ UNCHANGED << players, round_num, winner, flee_waiting, death_checks,
                    orphan_loops, cast_round, whispers_flying >>

\* lines 301-302: task.cancel() raises CancelledError at the await the driver
\* is suspended on (broadcast's `except Exception` does not catch it); it is
\* logged and the task returns, the phase stays as it is
Cancel ==
    /\ AtAwait
    /\ ~Stopped
    /\ pc' = "cancelled"
    /\ lock' = "free"
    /\ pairs' = << >>
    /\ pair_i' = 0
    /\ dummy_action' = "NONE"
    /\ death_log' = {}
    /\ whisper_tasks' = 0
    /\ UNCHANGED << players, phase, round_num, winner, flee_waiting, death_checks,
                    orphan_loops, cast_round, whispers_flying >>

\* cmd_start (lines 510-514) in a room that has a session: games[chat_id] is
\* overwritten by a fresh GameSession holding the sender, a new driver task is
\* created, and the old task is not cancelled
CmdStart(u) ==
    /\ HandlerMayRun
    /\ orphan_loops < MaxOrphans
    /\ orphan_loops' = orphan_loops + (IF Stopped THEN 0 ELSE 1)
    /\ players' = (u :> Player(u))
    /\ phase' = "LOBBY"
    /\ round_num' = 0
    /\ lock' = "free"
    /\ pc' = "lobby"
    /\ pairs' = << >>
    /\ pair_i' = 0
    /\ dummy_action' = "NONE"
    /\ winner' = -1
    /\ flee_waiting' = NoUser
    /\ death_checks' = 0
    /\ death_log' = {}
    /\ cast_round' = [v \in Users |-> 0]
    /\ whisper_tasks' = 0
    /\ whispers_flying' = {}

\* the driver of a replaced session returns (no handler reaches the session:
\* its players lose AFK_PENALTY each round until at most one is left)
OrphanLoopEnds ==
    /\ AtAwait
    /\ orphan_loops > 0
    /\ orphan_loops' = orphan_loops - 1
    /\ UNCHANGED << players, phase, round_num, lock, pc, pairs, pair_i,
                    dummy_action, winner, flee_waiting, death_checks, death_log,
                    cast_round, whisper_tasks, whispers_flying >>

Next ==
    \/ \E u \in Users : CmdJoin(u)
    \/ \E u \in Users : CmdFlee(u)
    \/ FleeResume
    \/ \E u \in Users, a \in {"TRUST", "BETRAY"} : Vote(u, a)
    \/ \E u \in Users, t \in Users : Curse(u, t)
    \/ LobbyExpire
    \/ AbortEnd
    \/ DiscussionExpire
    \/ DecisionExpire
    \/ ResolvePair
    \/ ChronicleSent
    \/ HoldExpire
    \/ DeathCheck
    \/ (RoundEnd /\ round_num' <= RoundCap(Cardinality(Roster)))
    \/ EndGame

Spec == Init /\ [][Next]_vars

\* ------------------------------------------------------------ properties
\* C1: when _resolve_mechanics returns, exactly one living player sends the
\* driver into _end_game with that player as the winner, none sends it there
\* with no winner, two or more start another round (phase DISCUSSION, not
\* ENDED); _end_game then ends in phase ENDED with the winner it was given.
RoundEndDecides ==
    [][ /\ (pc = "res_status" /\ pc' # pc) =>
              LET alive == AliveIds(players) IN
              /\ Cardinality(alive) = 1 =>
                    /\ pc' = "end_game"
                    /\ winner' \in alive
              /\ Cardinality(alive) = 0 =>
                    /\ pc' = "end_game"
                    /\ winner' = NoUser
              /\ Cardinality(alive) >= 2 =>
                    /\ pc' = "discussion"
                    /\ phase' = "DISCUSSION"
                    /\ round_num' = round_num + 1
        /\ (pc = "end_game" /\ pc' # pc) =>
              /\ phase' = "ENDED"
              /\ winner' = winner
        /\ (phase' = "ENDED" /\ phase # "ENDED" /\ pc # "abort_bcast") =>
              pc = "end_game"
      ]_vars

\* a game ended with its single survivor reported as the winner
WinnerReported ==
    /\ phase = "ENDED"
    /\ winner \in Roster
    /\ AliveIds(players) = {winner}
    /\ players[winner].standing > 0

StandingConsistent(ps) ==
    \A u \in DOMAIN ps :
        ps[u].standing <= 0 => (~ps[u].is_alive /\ ps[u].standing = 0)

\* C2: the death loop runs once per round and after the last pair: while the
\* status broadcast of _resolve_mechanics is awaited it has run exactly once
\* and every standing <= 0 belongs to a dead player with standing 0; before
\* that point of the round it has not run; no step of the pair loop changes
\* is_alive; the driver marks a player dead only in the death loop, with the
\* pair list used up.
DeathCheckOnceAfterPairs ==
    [][ /\ pc' = "res_status" =>
              /\ death_checks' = 1
              /\ StandingConsistent(players')
        /\ pc' \in {"discussion", "decision", "res_pairs", "res_chronicle",
                    "res_hold", "res_anchor"} => death_checks' = 0
        /\ pc = "res_pairs" =>
              \A u \in Roster : players'[u].is_alive = players[u].is_alive
        /\ (pc' # pc /\ \E u \in Roster \cap DOMAIN players' :
                            players[u].is_alive /\ ~players'[u].is_alive) =>
              /\ pc = "res_anchor"
              /\ pc' = "res_status"
              /\ pairs = << >>
      ]_vars

\* the death loop has just marked a player whose standing the round's pairs
\* had brought to zero or below
DeathLoopFelled ==
    /\ pc = "res_status"
    /\ death_log # {}
    /\ \A u \in death_log : ~players[u].is_alive /\ players[u].standing = 0

PhaseEdges ==
    { << "LOBBY", "DISCUSSION" >>, << "LOBBY", "ENDED" >>,
      << "DISCUSSION", "DECISION" >>, << "DECISION", "RESOLUTION" >>,
      << "RESOLUTION", "DISCUSSION" >>, << "RESOLUTION", "ENDED" >> }

\* C3: the phase changes only along Lobby -> Discussion, Lobby -> Ended,
\* Discussion -> Decision, Decision -> Resolution, Resolution -> Discussion,
\* Resolution -> Ended; Resolution is entered from the Decision of the same
\* round; round_num grows by one exactly when the driver enters a Discussion.
PhaseFollowsEdges ==
    [][ /\ phase' # phase => << phase, phase' >> \in PhaseEdges
        /\ (phase' = "RESOLUTION" /\ phase # "RESOLUTION") =>
              (phase = "DECISION" /\ round_num' = round_num)
        /\ (pc' = "discussion" /\ pc # "discussion") <=> round_num' # round_num
        /\ round_num' # round_num => round_num' = round_num + 1
        /\ (pc' = "discussion" /\ pc # "discussion") => phase' = "DISCUSSION"
      ]_vars

\* a second round has begun: Resolution -> Discussion was taken
SecondDiscussion ==
    /\ phase = "DISCUSSION"
    /\ pc = "discussion"
    /\ round_num = 2

\* C4: once the phase has left Lobby the key set of players does not change.
RosterFrozenAfterLobby ==
    [][ phase # "LOBBY" => DOMAIN players' = DOMAIN players ]_vars

\* C5: once the phase is ENDED, neither the phase nor the roster nor any
\* player's standing, is_alive, current_action, curses_received changes.
EndedIsTerminal ==
    [][ phase = "ENDED" => (phase' = phase /\ players' = players) ]_vars

PairSlots == {<< i, k >> : i \in 1..Len(pairs), k \in 1..2}

\* C6: during the pair loop, every living player sits in exactly one slot of
\* the pair list, every real id in a slot is a living player, at most one pair
\* holds the placeholder, and one does exactly when the living count is odd.
PairingPartitionsLiving ==
    pc = "res_pairs" =>
        LET alive == AliveIds(players)
            void  == {i \in 1..Len(pairs) : DUMMY_ID \in {pairs[i][1], pairs[i][2]}}
        IN  /\ \A u \in alive :
                  Cardinality({s \in PairSlots : pairs[s[1]][s[2]] = u}) = 1
            /\ \A s \in PairSlots :
                  pairs[s[1]][s[2]] # DUMMY_ID => pairs[s[1]][s[2]] \in alive
            /\ \A i \in 1..Len(pairs) : pairs[i][1] # pairs[i][2]
            /\ Cardinality(void) <= 1
            /\ (void # {}) <=> (Cardinality(alive) % 2 = 1)

\* three living players were paired: one real pair and one placeholder pair
OddPairing ==
    /\ pc = "res_pairs"
    /\ pair_i = 1
    /\ Cardinality(AliveIds(players)) = 3
    /\ Len(pairs) = 2
    /\ pairs[2][2] = DUMMY_ID

\* ------------------------------------------------------------ one pair, all inputs
\* The pair loop of round 1 entered with players 1 and 2 paired in either slot
\* order, any two different roles, any commitments, and curses cast by player 3,
\* who fled before the Decision phase closed.
CurseLists == UNION {[1..n -> {3}] : n \in 0..PayoffCurses}

InitPayoff ==
    /\ \E r1 \in Roles, r2 \in Roles, a1 \in {"NONE", "TRUST", "BETRAY"},
          a2 \in {"NONE", "TRUST", "BETRAY"}, c1 \in CurseLists, c2 \in CurseLists :
            /\ r1 # r2
            /\ players =
                  (1 :> [Player(1) EXCEPT !.role = r1, !.current_action = a1,
                                          !.curses_received = c1])
               @@ (2 :> [Player(2) EXCEPT !.role = r2, !.current_action = a2,
                                          !.curses_received = c2])
               @@ (3 :> [Player(3) EXCEPT !.role = CHOOSE r \in Roles : r \notin {r1, r2},
                                          !.standing = 0, !.is_alive = FALSE])
    /\ pairs \in { << << 1, 2 >> >>, << << 2, 1 >> >> }
    /\ phase = "RESOLUTION"
    /\ round_num = 1
    /\ lock = "free"
    /\ pc = "res_pairs"
    /\ pair_i = 1
    /\ dummy_action = "NONE"
    /\ winner = -1
    /\ flee_waiting = NoUser
    /\ death_checks = 0
    /\ death_log = {}
    /\ orphan_loops = 0
    /\ whisper_tasks = 0
    /\ whispers_flying = {}
    /\ cast_round = [u \in Users |->
                        IF u \in DOMAIN players /\ players[u].curses_received # << >>
                        THEN 1 ELSE 0]

NextPayoff == ResolvePair

SpecPayoff == InitPayoff /\ [][NextPayoff]_vars

\* roles that lines 380-422 never test
PlainRoles ==
    Roles \ {"CINDER_ORACLE", "BLACK_BANNER", "GRAVEWARDEN", "IRON_VANGUARD",
             "CRIMSON_DUELIST"}

\* the pair the next turn of the pair loop resolves, and what the turn adds
SlotP1 == pairs[pair_i][1]
SlotP2 == pairs[pair_i][2]
Delta(u) == players'[u].standing - players[u].standing

RealPair == pc = "res_pairs" /\ SlotP2 # DUMMY_ID

PlainPair ==
    /\ RealPair
    /\ players[SlotP1].role \in PlainRoles
    /\ players[SlotP2].role \in PlainRoles
    /\ players[SlotP1].curses_received = << >>
    /\ players[SlotP2].curses_received = << >>

\* the delta the table of C7 gives to a side that chose `me` against `other`
\* ("NONE": no commitment); defined when not both sides are without commitment
TableDelta(me, other) ==
    IF me = "NONE" THEN -5
    ELSE IF other = "NONE" THEN (IF me = "BETRAY" THEN 10 ELSE 0)
    ELSE IF me = "TRUST" /\ other = "TRUST" THEN 10
    ELSE IF me = "TRUST" /\ other = "BETRAY" THEN -15
    ELSE IF me = "BETRAY" /\ other = "TRUST" THEN 15
    ELSE -10

\* C7: a pair of two real players with plain roles and no curses changes the
\* standings by Trust/Trust +10 each, Trust/Betray -15 / +15, Betray/Betray -10
\* each, and with exactly one side uncommitted -5 for it and +10 for a
\* betraying other side, else 0; from 50 each: 60/60, 35/65, 45/60.
PlainPairFollowsTable ==
    [][ PlainPair =>
          LET a1 == players[SlotP1].current_action
              a2 == players[SlotP2].current_action
          IN  ~(a1 = "NONE" /\ a2 = "NONE") =>
                /\ Delta(SlotP1) = TableDelta(a1, a2)
                /\ Delta(SlotP2) = TableDelta(a2, a1)
                /\ (a1 = "TRUST" /\ a2 = "TRUST") =>
                      (players'[SlotP1].standing = 60 /\ players'[SlotP2].standing = 60)
                /\ (a1 = "TRUST" /\ a2 = "BETRAY") =>
                      (players'[SlotP1].standing = 35 /\ players'[SlotP2].standing = 65)
                /\ (a1 = "NONE" /\ a2 = "BETRAY") =>
                      (players'[SlotP1].standing = 45 /\ players'[SlotP2].standing = 60)
      ]_vars

\* an uncommitted player of plain role met a betrayer of plain role: 45 and 60
AfkMetBetrayer ==
    /\ pc = "res_chronicle"
    /\ players[1].role \in PlainRoles /\ players[2].role \in PlainRoles
    /\ players[1].curses_received = << >> /\ players[2].curses_received = << >>
    /\ players[1].current_action = "SLEEP" /\ players[1].standing = 45
    /\ players[2].current_action = "BETRAY" /\ players[2].standing = 60

\* C8: with plain roles and no curses the deltas of a pair are the swapped
\* deltas of the pair with its slots exchanged.
PayoffSymmetric ==
    [][ PlainPair =>
          LET a1 == DefaultAction(players[SlotP1].current_action)
              a2 == DefaultAction(players[SlotP2].current_action)
              sw == Gains(a2, a1, players[SlotP2].role, players[SlotP1].role,
                          << >>, << >>)
          IN  << Delta(SlotP1), Delta(SlotP2) >> = << sw[2], sw[1] >>
      ]_vars

\* C9: a pair whose two players both made no commitment leaves both standings
\* as they were.
BothAsleepNoChange ==
    [][ ( /\ RealPair
          /\ players[SlotP1].current_action = "NONE"
          /\ players[SlotP2].current_action = "NONE" ) =>
          (Delta(SlotP1) = 0 /\ Delta(SlotP2) = 0)
      ]_vars

\* the delta pending for each side when the curse stage is reached
Pending ==
    LET a1 == DefaultAction(players[SlotP1].current_action)
        a2 == DefaultAction(players[SlotP2].current_action)
    IN  BlackBannerSteal(BasePayoff(a1, a2, players[SlotP1].role, players[SlotP2].role),
                         a1, a2, players[SlotP1].role, players[SlotP2].role)

\* d / 2 truncated toward zero, for d > 0
HalfOf(d) == CHOOSE h \in 0..d : 2 * h = d \/ 2 * h + 1 = d

\* what a side's standing gains from a pending delta d: halved when d > 0 and
\* a curse is recorded, else d itself; the Gravewarden stage follows
DampenedDelta(d, curses, role) ==
    IF d > 0 /\ curses # << >> THEN HalfOf(d) ELSE GravewardenGain(d, role)

\* C10: a pending delta d <= 0 is not changed by any number of curses; d > 0
\* with at least one curse becomes d / 2 truncated, whatever the number of
\* curses; a side's delta does not depend on the other side's curses.  Trust /
\* Trust from 50 with a curse on one plain side: 55 for it, 60 for the other.
CurseOnlyHalvesGains ==
    [][ RealPair =>
          /\ Delta(SlotP1) = DampenedDelta(Pending[1], players[SlotP1].curses_received,
                                           players[SlotP1].role)
          /\ Delta(SlotP2) = DampenedDelta(Pending[2], players[SlotP2].curses_received,
                                           players[SlotP2].role)
          /\ ( /\ players[SlotP1].role \in PlainRoles
               /\ players[SlotP2].role \in PlainRoles
               /\ players[SlotP1].current_action = "TRUST"
               /\ players[SlotP2].current_action = "TRUST"
               /\ Len(players[SlotP1].curses_received) = 1
               /\ players[SlotP2].curses_received = << >>
               /\ players[SlotP1].standing = 50 /\ players[SlotP2].standing = 50 ) =>
                 (players'[SlotP1].standing = 55 /\ players'[SlotP2].standing = 60)
      ]_vars

\* a twice-cursed betrayer's +15 was cut to +7 while the truster lost its 15
CursedGainHalved ==
    /\ pc = "res_chronicle"
    /\ players[1].role \in PlainRoles /\ players[2].role \in PlainRoles
    /\ players[1].current_action = "BETRAY" /\ players[2].current_action = "TRUST"
    /\ Len(players[1].curses_received) = 2
    /\ Len(players[2].curses_received) = 1
    /\ players[1].standing = 57
    /\ players[2].standing = 35

\* ------------------------------------------------------------ protocol
\* C11: a step that changes a player or the roster is not a commitment or a
\* curse-cast made outside Decision or by a user outside the roster, and not
\* a join made outside Lobby; no handler step outside Decision changes a
\* current_action or a curses_received, the roster never grows outside Lobby,
\* and no handler step changes the phase, the round or the winner.
ViolationsRejected ==
    [][ /\ (pc' = pc /\ players' # players) =>
              /\ \A u \in Users, a \in {"TRUST", "BETRAY"} :
                    (phase # "DECISION" \/ u \notin Roster) => ~Vote(u, a)
              /\ \A u \in Users, t \in Users :
                    (phase # "DECISION" \/ u \notin Roster) => ~Curse(u, t)
              /\ \A u \in Users : phase # "LOBBY" => ~CmdJoin(u)
        /\ (phase # "DECISION" /\ pc' = pc /\ pc # "res_pairs") =>
              \A u \in Roster \cap DOMAIN players' :
                  /\ players'[u].current_action = players[u].current_action
                  /\ players'[u].curses_received = players[u].curses_received
        /\ phase # "LOBBY" => DOMAIN players' \subseteq Roster
        /\ pc' = pc => (phase' = phase /\ round_num' = round_num /\ winner' = winner)
      ]_vars

\* the Discussion of a second round: last round's commitment is still stored,
\* commitments are refused, and a user outside the roster exists
CommitOutsideDecision ==
    /\ phase = "DISCUSSION"
    /\ round_num = 2
    /\ \E u \in Roster : players[u].is_alive /\ players[u].current_action = "TRUST"
    /\ Users \ Roster # {}

\* C12: a curses_received list grows only by the id of a caster who is dead,
\* on a target who is alive; a current_action is set by a handler only for a
\* living player.
CursesFromDeadOnLiving ==
    [][ pc' = pc =>
          \A t \in Roster \cap DOMAIN players' :
              /\ Len(players'[t].curses_received) > Len(players[t].curses_received) =>
                    /\ players[t].is_alive
                    /\ LET caster == players'[t].curses_received[Len(players'[t].curses_received)]
                       IN  caster \in Roster /\ ~players[caster].is_alive
              /\ (pc # "res_pairs"
                    /\ players'[t].current_action # players[t].current_action) =>
                    players[t].is_alive
      ]_vars

\* C13: a flee in Discussion, Decision or Resolution keeps the roster; a
\* roster member's standing becomes 0 and is_alive false and no other player
\* changes; a non-member's flee changes nothing; the phase, the round and the
\* driver's position stay as they are.
FleeIsSelfElimination ==
    [][ (phase \in {"DISCUSSION", "DECISION", "RESOLUTION"}
            /\ pc' = pc /\ players' # players) =>
          \A u \in Users :
              CmdFlee(u) =>
                  /\ u \in Roster
                  /\ DOMAIN players' = Roster
                  /\ \A v \in Roster \ {u} : players'[v] = players[v]
                  /\ players'[u] = [players[u] EXCEPT !.standing = 0, !.is_alive = FALSE]
                  /\ UNCHANGED << phase, round_num, lock, pc, pairs, pair_i,
                                  dummy_action, winner, flee_waiting >>
      ]_vars

\* in the Decision of round 1, where nobody has been paired yet, a player is
\* dead with standing 0 next to a living one: it fled
FledDuringGame ==
    /\ phase = "DECISION"
    /\ round_num = 1
    /\ \E u, v \in Roster :
          /\ ~players[u].is_alive /\ players[u].standing = 0
          /\ players[v].is_alive /\ players[v].standing = STARTING_STANDING

\* the Lobby timed out below MIN_PLAYERS: the driver is in, or has left, the
\* abort branch (it never called _end_game and no round began)
Aborted == pc = "abort_bcast" \/ (pc = "done" /\ winner = -1 /\ round_num = 0)

\* C14: when the Lobby sleep ends with fewer than MIN_PLAYERS players the
\* driver takes the abort branch, which ends in phase ENDED; from then on the
\* phase is LOBBY or ENDED, round_num is 0, no winner is reported and nobody
\* has a role.
LobbyTimeoutAborts ==
    [][ /\ (pc = "lobby" /\ pc' # pc /\ Cardinality(Roster) < MIN_PLAYERS) =>
              pc' = "abort_bcast"
        /\ (pc = "abort_bcast" /\ pc' # pc) => (pc' = "done" /\ phase' = "ENDED")
        /\ Aborted => Aborted'
        /\ Aborted' =>
              /\ phase' \in {"LOBBY", "ENDED"}
              /\ round_num' = 0
              /\ winner' = -1
              /\ \A u \in DOMAIN players' : players'[u].role = "NONE"
      ]_vars

\* a session of one player ended by the Lobby timeout
AbortedAlone ==
    /\ pc = "done"
    /\ phase = "ENDED"
    /\ round_num = 0
    /\ winner = -1
    /\ Cardinality(Roster) = 1
    /\ \A u \in Roster : players[u].role = "NONE"

\* --------------------------------------------------------------- roles
\* a pair of two real players without curses where slot `o` holds the Cinder
\* Oracle and the other slot a plain role
OraclePair(o, other) ==
    /\ RealPair
    /\ players[o].role = "CINDER_ORACLE"
    /\ players[other].role \in PlainRoles
    /\ players[o].curses_received = << >>
    /\ players[other].curses_received = << >>

\* C18: whatever the two actions (not both uncommitted), the Cinder Oracle's
\* standing changes by twice the table's delta and the opponent's by the
\* table's delta.
OracleDoublesEveryDelta ==
    [][ \A o, other \in Users :
          (pc = "res_pairs" /\ {o, other} = {SlotP1, SlotP2} /\ OraclePair(o, other)) =>
              LET ao == players[o].current_action
                  ax == players[other].current_action
              IN  ~(ao = "NONE" /\ ax = "NONE") =>
                    /\ Delta(o) = 2 * TableDelta(ao, ax)
                    /\ Delta(other) = TableDelta(ax, ao)
      ]_vars

\* the phase has left Lobby for Discussion: a round has begun
GameBegun == round_num >= 1

\* C19: once a round has begun every roster member holds a role of RoleType,
\* no two members of a roster of at most len(RoleType) hold the same one, and
\* no member's role changes afterwards.
RolesAssignedOnce ==
    [][ /\ GameBegun' =>
              /\ \A u \in DOMAIN players' : players'[u].role \in Roles
              /\ Cardinality(DOMAIN players') <= Len(RoleType) =>
                    \A u, v \in DOMAIN players' :
                        u # v => players'[u].role # players'[v].role
        /\ GameBegun =>
              \A u \in Roster \cap DOMAIN players' : players'[u].role = players[u].role
      ]_vars

\* three players, each with a role, in the Resolution of the first round
ThreeRolesHeld ==
    /\ phase = "RESOLUTION"
    /\ round_num = 1
    /\ Cardinality(Roster) = 3
    /\ \A u \in Roster : players[u].role \in Roles

\* --------------------------------------------------------------- curses
\* the session right after the Lobby closed on a full room (lines 287-288):
\* every user joined, roles assigned (of the shuffles, the one that leaves
\* the pool in enum order), the first Discussion begins
InitCurse ==
    /\ players = [u \in Users |->
                    [Player(u) EXCEPT !.role = AssignRoles(Users, DrawnSeq)[u]]]
    /\ phase = "DISCUSSION"
    /\ round_num = 1
    /\ lock = "free"
    /\ pc = "discussion"
    /\ pairs = << >>
    /\ pair_i = 0
    /\ dummy_action = "NONE"
    /\ winner = -1
    /\ flee_waiting = NoUser
    /\ death_checks = 0
    /\ death_log = {}
    /\ orphan_loops = 0
    /\ whisper_tasks = 0
    /\ whispers_flying = {}
    /\ cast_round = [u \in Users |-> 0]

NextCurse ==
    \/ \E u \in Users : CmdJoin(u)
    \/ \E u \in Users : CmdFlee(u)
    \/ \E u \in Users, a \in {"TRUST", "BETRAY"} : Vote(u, a)
    \/ \E u \in Users, t \in Users : Curse(u, t)
    \/ DiscussionExpire
    \/ DecisionExpire
    \/ ResolvePair
    \/ ChronicleSent
    \/ HoldExpire
    \/ DeathCheck
    \/ (RoundEnd /\ round_num' <= CurseRounds)
    \/ EndGame

SpecCurse == InitCurse /\ [][NextCurse]_vars

\* C20: on entry to Decision every curses_received is empty; a
\* curses_received changes only by that clearing or by an append while the
\* phase is Decision; and every curse list a pair's resolution reads was
\* appended to in the Decision of the round being resolved.
CursesLastOneRound ==
    [][ /\ (phase = "DISCUSSION" /\ phase' = "DECISION") =>
              \A u \in DOMAIN players' : players'[u].curses_received = << >>
        /\ \A u \in Roster \cap DOMAIN players' :
              players'[u].curses_received # players[u].curses_received =>
                  \/ phase = "DISCUSSION" /\ phase' = "DECISION"
                  \/ /\ phase = "DECISION" /\ phase' = "DECISION"
                     /\ \E c \in Roster :
                           players'[u].curses_received =
                              Append(players[u].curses_received, c)
        /\ pc = "res_pairs" =>
              \A u \in {SlotP1, SlotP2} \ {DUMMY_ID} :
                  players[u].curses_received # << >> => cast_round[u] = round_num
      ]_vars

\* a player cursed in round 1 is about to be resolved in round 2 with an
\* empty curse list
OldCurseGone ==
    /\ pc = "res_pairs"
    /\ round_num = 2
    /\ \E u \in {SlotP1, SlotP2} \ {DUMMY_ID} :
          /\ cast_round[u] = 1
          /\ players[u].curses_received = << >>
          /\ players[u].current_action \in {"TRUST", "BETRAY"}

\* ------------------------------------------------------- registry, faults
\* a room of at most DuelUsers players that may be restarted and whose driver
\* may fail, followed for RoomRounds rounds
NextRoom ==
    \/ \E u \in Users : CmdStart(u)
    \/ OrphanLoopEnds
    \/ Fault
    \/ \E u \in Users : (CmdJoin(u) /\ Cardinality(DOMAIN players') <= DuelUsers)
    \/ \E u \in Users : CmdFlee(u)
    \/ FleeResume
    \/ \E u \in Users, a \in {"TRUST", "BETRAY"} : Vote(u, a)
    \/ \E u \in Users, t \in Users : Curse(u, t)
    \/ LobbyExpire
    \/ AbortEnd
    \/ DiscussionExpire
    \/ DecisionExpire
    \/ ResolvePair
    \/ ChronicleSent
    \/ HoldExpire
    \/ DeathCheck
    \/ (RoundEnd /\ round_num' <= RoomRounds)
    \/ EndGame

SpecRoom == Init /\ [][NextRoom]_vars

\* driver tasks running for the room: the one of the session in `games` and
\* those of the sessions it replaced
DriverLoops == orphan_loops + (IF Stopped THEN 0 ELSE 1)

\* C15: at no time do two driver loops run for the room: the driver of the
\* session in `games` is the only one, no replaced session's driver runs.
OneDriverPerRoom == DriverLoops <= 1

\* C16: whenever the driver has stopped without being cancelled, the phase is
\* ENDED.
FaultEndsSession == pc = "done" => phase = "ENDED"

\* the driver failed during a round: it stopped without passing _end_game
FaultedInRound ==
    /\ pc = "done"
    /\ phase = "ENDED"
    /\ round_num >= 1
    /\ winner = -1

\* ------------------------------------------------------------ cancellation
\* the session right after the Lobby closed on two players (lines 287-288)
InitDuel ==
    /\ players = [u \in 1..DuelUsers |->
                    [Player(u) EXCEPT !.role = AssignRoles(1..DuelUsers, DrawnSeq)[u]]]
    /\ phase = "DISCUSSION"
    /\ round_num = 1
    /\ lock = "free"
    /\ pc = "discussion"
    /\ pairs = << >>
    /\ pair_i = 0
    /\ dummy_action = "NONE"
    /\ winner = -1
    /\ flee_waiting = NoUser
    /\ death_checks = 0
    /\ death_log = {}
    /\ orphan_loops = 0
    /\ whisper_tasks = 0
    /\ whispers_flying = {}
    /\ cast_round = [u \in Users |-> 0]

NextCancel ==
    \/ Cancel
    \/ \E u \in Users : CmdJoin(u)
    \/ \E u \in Users : CmdFlee(u)
    \/ \E u \in Users, a \in {"TRUST", "BETRAY"} : Vote(u, a)
    \/ \E u \in Users, t \in Users : Curse(u, t)
    \/ DiscussionExpire
    \/ DecisionExpire
    \/ ResolvePair
    \/ ChronicleSent
    \/ HoldExpire
    \/ DeathCheck
    \/ (RoundEnd /\ round_num' <= MaxRound)
    \/ EndGame

SpecCancel == InitDuel /\ [][NextCancel]_vars

\* C17: after a cancelled driver has stopped, no participant has standing
\* <= 0 while is_alive.
CancelLeavesRoundsWhole == pc = "cancelled" => StandingConsistent(players)

\* ---------------------------------------------------------------- steal
\* what lines 376-404 read for the pair about to be resolved
SlotA1 == DefaultAction(players[SlotP1].current_action)
SlotA2 ==
    IF SlotP2 = DUMMY_ID THEN DefaultAction(dummy_action)
    ELSE DefaultAction(players[SlotP2].current_action)
SlotR1 == players[SlotP1].role
SlotR2 == IF SlotP2 = DUMMY_ID THEN "HOLLOW_KING" ELSE players[SlotP2].role

\* C23: for the pair about to be resolved, whenever a Black Banner side chose
\* Betray the other side's delta entering the steal stage is not positive, and
\* the deltas after the steal stage equal the deltas before it.
StealNeverApplies ==
    pc = "res_pairs" =>
        LET base == BasePayoff(SlotA1, SlotA2, SlotR1, SlotR2)
        IN  /\ (SlotR1 = "BLACK_BANNER" /\ SlotA1 = "BETRAY") => base[2] <= 0
            /\ (SlotR2 = "BLACK_BANNER" /\ SlotA2 = "BETRAY") => base[1] <= 0
            /\ BlackBannerSteal(base, SlotA1, SlotA2, SlotR1, SlotR2) = base

\* a Black Banner who betrayed a truster of plain role ends the pair's turn
\* with exactly the table's 65 against 35: nothing was stolen
BannerBetrayedTruster ==
    /\ pc = "res_chronicle"
    /\ \E u, v \in Roster :
          /\ players[u].role = "BLACK_BANNER"
          /\ players[u].current_action = "BETRAY"
          /\ players[u].standing = 65
          /\ players[v].role \in PlainRoles
          /\ players[v].current_action = "TRUST"
          /\ players[v].standing = 35

\* ----------------------------------------------------------------- death
\* C22: in every state a dead player has standing 0; a dead player stays dead
\* and keeps its standing in every step, whichever handler or driver step it
\* is; and no dead player sits in a slot of the pair list.
DeadAreInert ==
    [][ /\ \A u \in DOMAIN players' :
              ~players'[u].is_alive => players'[u].standing = 0
        /\ \A u \in Roster \cap DOMAIN players' :
              ~players[u].is_alive =>
                  /\ ~players'[u].is_alive
                  /\ players'[u].standing = players[u].standing
        /\ \A i \in 1..Len(pairs'), k \in 1..2 :
              pairs'[i][k] # DUMMY_ID =>
                  (pairs'[i][k] \in DOMAIN players' /\ players'[pairs'[i][k]].is_alive)
      ]_vars

\* a room of three after its pair loop: two were paired and their standings
\* moved, the third had fled before and still has standing 0
DeadSatOut ==
    /\ pc = "res_chronicle"
    /\ Cardinality(Roster) = 3
    /\ \E u \in Roster :
          /\ ~players[u].is_alive
          /\ players[u].standing = 0
          /\ players[u].current_action = "NONE"
          /\ \A v \in Roster \ {u} :
                players[v].is_alive /\ players[v].standing # STARTING_STANDING

\* -------------------------------------------------------------- whispers
\* line 460: the send_message tasks scheduled by gather(return_exceptions=True)
\* for round r all complete or fail while the driver is suspended; an
\* exception is kept in the gather result, which nobody reads
WhisperSettles(r) ==
    /\ AtAwait
    /\ r \in whispers_flying
    /\ whispers_flying' = whispers_flying \ {r}
    /\ UNCHANGED << players, phase, round_num, lock, pc, pairs, pair_i,
                    dummy_action, winner, flee_waiting, death_checks, death_log,
                    orphan_loops, cast_round, whisper_tasks >>

NextWhisper ==
    \/ \E r \in 1..WhisperRounds : WhisperSettles(r)
    \/ \E u \in Users : CmdJoin(u)
    \/ \E u \in Users : CmdFlee(u)
    \/ \E u \in Users, a \in {"TRUST", "BETRAY"} : Vote(u, a)
    \/ \E u \in Users, t \in Users : Curse(u, t)
    \/ DiscussionExpire
    \/ DecisionExpire
    \/ ResolvePair
    \/ ChronicleSent
    \/ HoldExpire
    \/ DeathCheck
    \/ (RoundEnd /\ round_num' <= WhisperRounds)
    \/ EndGame

SpecWhisper == InitDuel /\ [][NextWhisper]_vars

\* C21: while a round's chronicle broadcast has not returned, none of that
\* round's whispers is scheduled, and whispers are scheduled only by the step
\* in which that broadcast returns; whenever the driver is in the tension hold
\* it can leave it, whispers settled or not; and the settling of whispers,
\* failed or not, changes no player, not the phase, not the driver's position.
NarrationBeforeWhispers ==
    /\ [](round_num \in whispers_flying =>
            pc \notin {"discussion", "decision", "res_pairs", "res_chronicle"})
    /\ [](pc = "res_hold" => ENABLED HoldExpire)
    /\ [][ /\ ~(whispers_flying' \subseteq whispers_flying) =>
                 /\ pc = "res_chronicle" /\ pc' = "res_hold"
                 /\ whispers_flying' = whispers_flying \cup {round_num}
           /\ (whispers_flying' # whispers_flying
                  /\ whispers_flying' \subseteq whispers_flying) =>
                 UNCHANGED << players, phase, round_num, pc, winner >>
         ]_vars

\* the hold of round 2 is over and the driver has moved on while whispers of
\* both rounds are still in flight
HoldOverWhispersFlying ==
    /\ pc = "res_anchor"
    /\ round_num = 2
    /\ whispers_flying = {1, 2}

====
